---- MODULE Spec2Model ----
(***************************************************************************)
(* Model of jx's `context` command (ContextOptions.Run, PickContext) and   *)
(* of its `init` command (InitOptions.Run, checkOptions,                   *)
(* EnableClusterAdminRole, InitIngress, ...), src/pkg/jx/cmd/context.go.   *)
(*                                                                         *)
(* Strings that the code inspects (context names, the filter) are          *)
(* sequences of characters, characters being small naturals, so that       *)
(* strings.Index and sort.Strings are computed and not assumed.            *)
(***************************************************************************)
EXTENDS Integers, Sequences, FiniteSets, TLC

VARIABLES
    kubeConfig,   \* the persisted kube configuration (what kube.LoadConfig loads)
    ctxOut,       \* what the last ContextOptions.Run did and returned
    pc,           \* where InitOptions.Run (or a lone Retry) stands
    Flags,        \* o.Flags, the InitFlags of the init command
    o,            \* the CommonOptions fields init reads and writes
    cluster,      \* what the cluster holds: role binding, ingress pods
    retry,        \* the locals of the CommonOptions.Retry call in progress
    helmCfg,      \* cfg, the opts.InitHelmConfig handed to InitHelm
    ing,          \* the locals of the InitIngress call in progress
    calls,        \* how often each collaborator has been invoked in this run
    trace,        \* the phases of the run in the order they started
    result        \* "" while the run goes on, then "ok" or the error

ctxVars == <<kubeConfig, ctxOut>>

initVars ==
    <<pc, Flags, o, cluster, retry, helmCfg, ing, calls, trace, result>>

vars ==
    <<kubeConfig, ctxOut, pc, Flags, o, cluster, retry, helmCfg, ing, calls,
      trace, result>>

----------------------------------------------------------------------------
(* State of the init command                                               *)

\* cloud.ICP, cloud.IKS, cloud.OPENSHIFT, cloud.ALIBABA, cloud.AWS, cloud.EKS
\* and cloud.GKE, which stands for the providers init has no case for
ICP == "icp"
IKS == "iks"
OPENSHIFT == "openshift"
ALIBABA == "alibaba"
AWS == "aws"
EKS == "eks"
GKE == "gke"

\* opts.DefaultIngressServiceName, the default of --ingress-service and of
\* --ingress-deployment
DefaultIngressServiceName == "jxing-nginx-ingress-controller"

\* the flags as cobra leaves them when none is given on the command line
\* (lines 256-290), for a provider without a case of its own
DefaultFlags ==
    [Domain |-> "", Provider |-> GKE, Namespace |-> "jx",
     TillerNamespace |-> "kube-system", IngressNamespace |-> "kube-system",
     IngressService |-> DefaultIngressServiceName,
     IngressDeployment |-> DefaultIngressServiceName,
     ExternalIP |-> "", HelmClient |-> FALSE, Helm3 |-> FALSE,
     NoTiller |-> TRUE, RemoteTiller |-> TRUE, GlobalTiller |-> TRUE,
     SkipIngress |-> FALSE, SkipTiller |-> FALSE, SkipClusterRole |-> FALSE,
     OnPremise |-> FALSE, NoGitValidate |-> FALSE, ExternalDNS |-> FALSE]

\* the CommonOptions fields: --batch-mode, --advanced-mode, --username and
\* the Domain field InitIngress copies the resolved domain into
DefaultOptions ==
    [BatchMode |-> FALSE, AdvancedMode |-> FALSE, Username |-> "", Domain |-> ""]

\* a cluster without the role binding whose ingress deployment has a ready pod
DefaultCluster == [bindingExists |-> FALSE, readyPods |-> 1]

\* no CommonOptions.Retry call in progress
IdleRetry ==
    [active |-> FALSE, attempts |-> 0, sleep |-> 0, invoked |-> 0,
     delays |-> 0, slept |-> 0, outcomes |-> <<>>, result |-> ""]

\* cfg before line 374 builds it
NoHelmCfg ==
    [built |-> FALSE, Namespace |-> "", OnlyHelmClient |-> FALSE,
     Helm3 |-> FALSE, SkipTiller |-> FALSE, GlobalTiller |-> FALSE,
     TillerNamespace |-> ""]

\* no InitIngress call in progress
IdleIng ==
    [stage |-> "", i |-> 0, podCount |-> 0, podErr |-> FALSE,
     install |-> FALSE, exhausted |-> FALSE, externalIP |-> "",
     domainIP |-> "", timedOut |-> "", returned |-> ""]

\* the collaborators whose invocations are counted
Collaborators ==
    {"InitHelm", "InitBuildPacks", "EnsureNamespaceCreated",
     "DeploymentPodCount", "InstallChart", "Sleep", "WaitForDeploymentToBeReady",
     "WaitForExternalIP", "GetDomain", "WaitForDeploymentToBeCreatedAndReady",
     "Get", "Create", "Prompt"}

NoCalls == [c \in Collaborators |-> 0]

\* calls with one more invocation of collaborator c
Called(cs, c) == [cs EXCEPT ![c] = @ + 1]

\* calls with n more prompts (survey.AskOne, util.PickValue)
Prompted(cs, n) == [cs EXCEPT !["Prompt"] = @ + n]

----------------------------------------------------------------------------
(* Bounds and input domains of the context switcher                        *)

\* the largest number of entries of config.Contexts
MaxContexts == 2

\* the strings used as context names, filters and positional arguments:
\* "", "a", "ab", "b" with a = 1, b = 2
ContextNames == {<<>>, <<1>>, <<1, 2>>, <<2>>}

\* a nil *api.Context
NilContext == [isNil |-> TRUE, Cluster |-> "", Namespace |-> "", AuthInfo |-> ""]

\* the non-nil *api.Context stored under key k: every context has a cluster
\* and a user of its own, and the context "b" leaves its namespace empty
ContextValue(k) ==
    [isNil |-> FALSE, Cluster |-> <<"cluster", k>>,
     Namespace |-> IF k = <<2>> THEN "" ELSE "jx", AuthInfo |-> <<"user", k>>]

\* the maps config.Contexts can be: at most MaxContexts keys, a key may be
\* the empty string and a value may be nil
ContextMaps ==
    { f \in UNION { [D -> {NilContext} \cup {ContextValue(k) : k \in D}] :
                      D \in {S \in SUBSET ContextNames :
                                Cardinality(S) <= MaxContexts} } :
        \A k \in DOMAIN f : f[k] \in {NilContext, ContextValue(k)} }

\* a nil *api.Config
NilConfig == [isNil |-> TRUE, Contexts |-> <<>>, CurrentContext |-> <<>>]

\* the configurations kube.LoadConfig can return
Configs ==
    {NilConfig} \cup
    [isNil : {FALSE}, Contexts : ContextMaps, CurrentContext : ContextNames]

\* o.Args: no positional argument, or one (only args[0] is read)
ArgLists == {<<>>} \cup {<<n>> : n \in ContextNames}

\* what the operator answers to the survey.Select prompt: an interrupt
\* (err) or the idx-th option
Answers == [err : BOOLEAN, idx : 0..(MaxContexts + 1)]

----------------------------------------------------------------------------
(* Library functions used by ContextOptions.Run                            *)

\* strings.Index(s, sub): the 0-based index of the first occurrence of sub
\* in s, -1 if there is none
Index(s, sub) ==
    LET hits == { i \in 0..(Len(s) - Len(sub)) :
                    SubSeq(s, i + 1, i + Len(sub)) = sub }
    IN IF hits = {} THEN -1
       ELSE CHOOSE i \in hits : \A j \in hits : i <= j

\* a < b in Go's string order (bytewise lexicographic)
RECURSIVE StringLess(_, _)
StringLess(a, b) ==
    IF b = <<>> THEN FALSE
    ELSE IF a = <<>> THEN TRUE
    ELSE IF Head(a) # Head(b) THEN Head(a) < Head(b)
    ELSE StringLess(Tail(a), Tail(b))

\* sort.Strings applied to a slice holding the elements of S once each
RECURSIVE SortStrings(_)
SortStrings(S) ==
    IF S = {} THEN <<>>
    ELSE LET m == CHOOSE x \in S : \A y \in S : x = y \/ StringLess(x, y)
         IN <<m>> \o SortStrings(S \ {m})

\* util.StringArrayIndex(array, value): 0-based index of value, -1 if absent
StringArrayIndex(array, value) ==
    LET hits == { i \in 1..Len(array) : array[i] = value }
    IN IF hits = {} THEN -1
       ELSE (CHOOSE i \in hits : \A j \in hits : i <= j) - 1

\* kube.Server(config, ctx): the server of the context's cluster
Server(config, ctx) ==
    IF ctx.isNil THEN <<>> ELSE <<"server", ctx.Cluster>>

\* kube.CurrentContext(config): the context config.CurrentContext names
CurrentContextOf(config) ==
    IF ~config.isNil /\ config.CurrentContext \in DOMAIN config.Contexts
    THEN config.Contexts[config.CurrentContext]
    ELSE NilContext

\* kube.CurrentNamespace(config)
CurrentNamespace(config) ==
    LET ctx == CurrentContextOf(config)
    IN IF ~ctx.isNil /\ ctx.Namespace # "" THEN ctx.Namespace ELSE "default"

\* kube.CurrentServer(config)
CurrentServer(config) == Server(config, CurrentContextOf(config))

----------------------------------------------------------------------------
(* ContextOptions.Run                                                      *)

\* the check of line 76 without its len(config.Contexts) == 0 part
NoContextsAvailable_NilOnly(config) ==
    config.isNil

\* line 76: nothing to switch between
NoContextsAvailable(config) ==
    config.isNil \/ Cardinality(DOMAIN config.Contexts) = 0

\* the loop of lines 80-88 without the o.Filter test of line 83
FilteredContextNames_NoFilter(config, filter) ==
    SortStrings({ k \in DOMAIN config.Contexts :
                    k # <<>> /\ ~config.Contexts[k].isNil })

\* lines 80-88: the candidate names
FilteredContextNames(config, filter) ==
    SortStrings({ k \in DOMAIN config.Contexts :
                    /\ k # <<>>
                    /\ ~config.Contexts[k].isNil
                    /\ (filter = <<>> \/ Index(k, filter) >= 0) })

\* lines 92-96: a positional name that is not a candidate is refused
ArgRefused(contextNames, args) ==
    Len(args) > 0 /\ StringArrayIndex(contextNames, args[1]) < 0

\* line 99: whether PickContext is called
NeedsPick(ctxName, batchMode) ==
    ctxName = <<>> /\ ~batchMode

\* PickContext without the short cut for a single name
PickContext_AsksForOne(names, defaultValue, answer) ==
    IF Len(names) = 0
    THEN [name |-> <<>>, err |-> FALSE, prompted |-> FALSE]
    ELSE IF answer.err
    THEN [name |-> <<>>, err |-> TRUE, prompted |-> TRUE]
    ELSE [name |-> names[IF answer.idx = 0 THEN 1 ELSE answer.idx],
          err |-> FALSE, prompted |-> TRUE]

\* lines 128-144: PickContext; prompted tells whether survey.AskOne ran
PickContext(names, defaultValue, answer) ==
    IF Len(names) = 0
    THEN [name |-> <<>>, err |-> FALSE, prompted |-> FALSE]
    ELSE IF Len(names) = 1
    THEN [name |-> names[1], err |-> FALSE, prompted |-> FALSE]
    ELSE IF answer.err
    THEN [name |-> <<>>, err |-> TRUE, prompted |-> TRUE]
    ELSE [name |-> names[answer.idx], err |-> FALSE, prompted |-> TRUE]

\* the test of line 108 without its comparison with config.CurrentContext
ShouldSwitch_Always(ctxName, config) ==
    ctxName # <<>>

\* line 108: whether the current context is to be changed
ShouldSwitch(ctxName, config) ==
    ctxName # <<>> /\ ctxName # config.CurrentContext

\* lines 113-114 without the assignment of line 114
NewConfig_NotAssigned(config, ctxName) ==
    config

\* lines 113-114 building a fresh api.Config instead of copying *config
NewConfig_Fresh(config, ctxName) ==
    [isNil |-> FALSE, Contexts |-> <<>>, CurrentContext |-> ctxName]

\* lines 113-114: the configuration handed to clientcmd.ModifyConfig
NewConfig(config, ctxName) ==
    [config EXCEPT !.CurrentContext = ctxName]

\* what a run that has not happened looks like
NoRun ==
    [ran |-> FALSE, args |-> <<>>, filter |-> <<>>, batch |-> FALSE,
     loaded |-> NilConfig, err |-> "", choices |-> <<>>, names |-> <<>>,
     resolved |-> FALSE, ctxName |-> <<>>,
     prompted |-> FALSE, promptOptions |-> <<>>, promptDefault |-> <<>>,
     modifyCalls |-> 0, newConfig |-> NilConfig,
     report |-> [kind |-> "", ns |-> "", ctx |-> <<>>, server |-> <<>>]]

\* line 109: config.Contexts[ctxName], nil when the map has no such key
ContextNamed(config, ctxName) ==
    IF ctxName \in DOMAIN config.Contexts
    THEN config.Contexts[ctxName] ELSE NilContext

\* lines 70-126: the outcome of one run on the loaded config
ContextRun(config, loadFails, args, filter, batchMode, answer, modifyFails) ==
    LET base == [NoRun EXCEPT !.ran = TRUE, !.args = args, !.filter = filter,
                              !.batch = batchMode, !.loaded = config,
                              !.newConfig = config]
    IN
    IF loadFails THEN [base EXCEPT !.err = "LoadConfig"]
    ELSE IF NoContextsAvailable(config) THEN [base EXCEPT !.err = "NoContexts"]
    ELSE
    LET contextNames == FilteredContextNames(config, filter)
        b1 == [base EXCEPT !.names = contextNames]
    IN
    IF ArgRefused(contextNames, args)
    THEN [b1 EXCEPT !.err = "InvalidArg", !.choices = contextNames]
    ELSE
    LET argName == IF Len(args) > 0 THEN args[1] ELSE <<>>
        picks   == NeedsPick(argName, batchMode)
        pick    == PickContext(contextNames, config.CurrentContext, answer)
        b2 == IF picks /\ pick.prompted
              THEN [b1 EXCEPT !.prompted = TRUE,
                              !.promptOptions = contextNames,
                              !.promptDefault = config.CurrentContext]
              ELSE b1
    IN
    IF picks /\ pick.err THEN [b2 EXCEPT !.err = "Prompt"]
    ELSE
    LET ctxName == IF picks THEN pick.name ELSE argName
        b3 == [b2 EXCEPT !.resolved = TRUE, !.ctxName = ctxName]
    IN
    IF ShouldSwitch(ctxName, config)
    THEN
        LET ctx == ContextNamed(config, ctxName)
            newConfig == NewConfig(config, ctxName)
            b4 == [b3 EXCEPT !.modifyCalls = 1, !.newConfig = newConfig]
        IN IF ctx.isNil THEN [b3 EXCEPT !.err = "NotFound"]
           ELSE IF modifyFails THEN [b4 EXCEPT !.err = "ModifyConfig"]
           ELSE [b4 EXCEPT !.report =
                    [kind |-> "Now using", ns |-> ctx.Namespace,
                     ctx |-> newConfig.CurrentContext,
                     server |-> Server(config, ctx)]]
    ELSE [b3 EXCEPT !.report =
             [kind |-> "Using", ns |-> CurrentNamespace(config),
              ctx |-> config.CurrentContext,
              server |-> CurrentServer(config)]]

\* the answers the prompt can give: one of the options it shows or an
\* interrupt when it is shown, nothing when it is not
AnswerFits(config, args, filter, batchMode, answer) ==
    LET n == IF NoContextsAvailable(config) THEN 0
             ELSE Len(FilteredContextNames(config, filter))
    IN IF n >= 2 /\ Len(args) = 0 /\ ~batchMode
       THEN answer.err \/ answer.idx \in 1..n
       ELSE ~answer.err /\ answer.idx = 0

\* one `jx context` invocation: clientcmd.ModifyConfig persists the new
\* configuration unless it fails (it can fail only when it is called)
Run ==
    \E args \in ArgLists, filter \in ContextNames, batchMode \in BOOLEAN,
       loadFails \in BOOLEAN, answer \in Answers :
        /\ AnswerFits(kubeConfig, args, filter, batchMode, answer)
        /\ LET ok == ContextRun(kubeConfig, loadFails, args, filter, batchMode,
                                answer, FALSE)
           IN \/ /\ ctxOut' = ok
                 /\ kubeConfig' = IF ok.modifyCalls = 1
                                  THEN ok.newConfig ELSE kubeConfig
              \/ /\ ok.modifyCalls = 1
                 /\ ctxOut' = ContextRun(kubeConfig, loadFails, args, filter,
                                         batchMode, answer, TRUE)
                 /\ UNCHANGED kubeConfig
        /\ UNCHANGED initVars

InitCtx ==
    /\ kubeConfig \in Configs
    /\ ctxOut = NoRun
    /\ pc = "idle"
    /\ Flags = DefaultFlags
    /\ o = DefaultOptions
    /\ cluster = DefaultCluster
    /\ retry = IdleRetry
    /\ helmCfg = NoHelmCfg
    /\ ing = IdleIng
    /\ calls = NoCalls
    /\ trace = <<>>
    /\ result = ""

NextCtx == Run

SpecCtx == InitCtx /\ [][NextCtx]_vars

----------------------------------------------------------------------------
(* CommonOptions.Retry                                                     *)

\* the largest maxAttempts a lone Retry call is given
MaxAttempts == 4

\* the delays, in seconds, Retry is called with (lines 384 and 459)
HelmRetrySleep == 2
RoleRetrySleep == 10

\* the attempts Retry is called with (lines 384 and 459)
HelmRetryAttempts == 3
RoleRetryAttempts == 3

\* the errors an operation under a lone Retry returns
OperationErrors == {"e1", "e2"}

\* Retry(attempts, sleep, call) before its first invocation of call
RetryStart(attempts, sleep) ==
    [IdleRetry EXCEPT !.active = TRUE, !.attempts = attempts, !.sleep = sleep]

\* Retry without the sleep between a failure and the next attempt
RetryAfter_NoDelay(r, err) ==
    LET n == r.invoked + 1
        r1 == [r EXCEPT !.invoked = n, !.outcomes = Append(@, err)]
    IN IF err = "" THEN [r1 EXCEPT !.active = FALSE, !.result = "ok"]
       ELSE IF n >= r.attempts THEN [r1 EXCEPT !.active = FALSE, !.result = err]
       ELSE r1

\* Retry after one invocation of call that returned err ("" for nil): the
\* first success or the attempts-th failure ends it, any other failure is
\* followed by a sleep
RetryAfter(r, err) ==
    LET n == r.invoked + 1
        r1 == [r EXCEPT !.invoked = n, !.outcomes = Append(@, err)]
    IN IF err = "" THEN [r1 EXCEPT !.active = FALSE, !.result = "ok"]
       ELSE IF n >= r.attempts THEN [r1 EXCEPT !.active = FALSE, !.result = err]
       ELSE [r1 EXCEPT !.delays = @ + 1, !.slept = @ + r.sleep]

\* one invocation of the operation of a lone Retry call
RetryAttempt ==
    /\ pc = "retry"
    /\ retry.active
    /\ \E err \in {""} \cup OperationErrors : retry' = RetryAfter(retry, err)
    /\ UNCHANGED <<pc, Flags, o, cluster, helmCfg, ing, calls, trace, result>>
    /\ UNCHANGED ctxVars

InitRetry ==
    /\ kubeConfig = NilConfig
    /\ ctxOut = NoRun
    /\ pc = "retry"
    /\ Flags = DefaultFlags
    /\ o = DefaultOptions
    /\ cluster = DefaultCluster
    /\ \E n \in 1..MaxAttempts, d \in {HelmRetrySleep, RoleRetrySleep} :
          retry = RetryStart(n, d)
    /\ helmCfg = NoHelmCfg
    /\ ing = IdleIng
    /\ calls = NoCalls
    /\ trace = <<>>
    /\ result = ""

NextRetry == RetryAttempt

SpecRetry == InitRetry /\ [][NextRetry]_vars

----------------------------------------------------------------------------
(* InitOptions.Run up to the package-manager runtime                       *)

\* the values the string inputs take
Providers == {GKE, ICP, IKS, OPENSHIFT, ALIBABA, AWS}
UserNames == {"", "admin"}
IPs == {"", "1.2.3.4"}
Domains == {"", "example.com"}
KubeNamespaces == {"", "default"}
ClusterIDs == {"", "C1"}

\* the run ends with the fatal error err
Abort(err) == pc' = "done" /\ result' = err

\* the run goes on at p
Proceed(p) == pc' = p /\ UNCHANGED result

\* lines 334-338: without remote tiller, or with --no-tiller, helm is
\* client-only and no tiller is set up
NormalizeTiller(f) ==
    IF ~f.RemoteTiller \/ f.NoTiller
    THEN [f EXCEPT !.HelmClient = TRUE, !.SkipTiller = TRUE,
                   !.GlobalTiller = FALSE]
    ELSE f

\* CommonOptions.GetCloudProvider(p): a given provider is kept, an unset one
\* is asked for unless in batch mode
GetCloudProvider(p, batchMode, fails, picked) ==
    IF fails THEN [provider |-> "", err |-> TRUE]
    ELSE IF p = "" /\ ~batchMode THEN [provider |-> picked, err |-> FALSE]
    ELSE [provider |-> p, err |-> FALSE]

\* lines 332-342
RunStart ==
    /\ pc = "start"
    /\ \E fails \in BOOLEAN, picked \in Providers :
          LET f1 == NormalizeTiller(Flags)
              r == GetCloudProvider(f1.Provider, o.BatchMode, fails, picked)
          IN /\ (f1.Provider # "" \/ o.BatchMode \/ fails) => picked = GKE
             /\ Flags' = [f1 EXCEPT !.Provider = r.provider]
             /\ IF r.err THEN Abort("GetCloudProvider") ELSE Proceed("git")
    /\ trace' = Append(trace, "GetCloudProvider")
    /\ UNCHANGED <<o, cluster, retry, helmCfg, ing, calls>>
    /\ UNCHANGED ctxVars

\* what git config holds, what the operator answers when asked, and whether
\* asking or storing fails
GitEnvs ==
    [userName : UserNames, userEmail : UserNames, answerName : UserNames,
     answerEmail : UserNames, pickFails : BOOLEAN, setFails : BOOLEAN]

\* lines 758-795: ValidateGit; prompts counts the util.PickValue calls
ValidateGit(batchMode, g) ==
    LET askName == g.userName = "" /\ ~batchMode
        userName == IF askName THEN g.answerName ELSE g.userName
        askEmail == g.userEmail = "" /\ ~batchMode
        userEmail == IF askEmail THEN g.answerEmail ELSE g.userEmail
        n1 == IF askName THEN 1 ELSE 0
        n2 == n1 + (IF askEmail THEN 1 ELSE 0)
    IN IF askName /\ g.pickFails THEN [err |-> "PickValue", prompts |-> n1]
       ELSE IF userName = "" THEN [err |-> "NoGitUserName", prompts |-> n1]
       ELSE IF g.userName = "" /\ g.setFails
       THEN [err |-> "SetUsername", prompts |-> n1]
       ELSE IF askEmail /\ g.pickFails THEN [err |-> "PickValue", prompts |-> n2]
       ELSE IF userEmail = "" THEN [err |-> "NoGitUserEmail", prompts |-> n2]
       ELSE IF g.userEmail = "" /\ g.setFails
       THEN [err |-> "SetEmail", prompts |-> n2]
       ELSE [err |-> "", prompts |-> n2]

\* lines 344-349
ValidateGitStep ==
    /\ pc = "git"
    /\ IF Flags.NoGitValidate
       THEN Proceed("clusterRole") /\ UNCHANGED <<calls, trace>>
       ELSE /\ trace' = Append(trace, "ValidateGit")
            /\ \E g \in GitEnvs :
                  LET r == ValidateGit(o.BatchMode, g)
                  IN /\ calls' = Prompted(calls, r.prompts)
                     /\ IF r.err # "" THEN Abort(r.err)
                        ELSE Proceed("clusterRole")
    /\ UNCHANGED <<Flags, o, cluster, retry, helmCfg, ing>>
    /\ UNCHANGED ctxVars

\* lines 351-354 and 418-458: EnableClusterAdminRole up to its Retry call
EnableClusterAdminRoleStart ==
    /\ pc = "clusterRole"
    /\ trace' = Append(trace, "EnableClusterAdminRole")
    /\ IF Flags.SkipClusterRole
       THEN Proceed("icp") /\ UNCHANGED <<o, retry>>
       ELSE \E clientFails \in BOOLEAN, found \in UserNames, nameFails \in BOOLEAN :
              LET asks == o.Username = ""
                  name == IF ~asks THEN o.Username
                          ELSE IF nameFails THEN "" ELSE found
              IN /\ ~asks => (found = "" /\ ~nameFails)
                 /\ IF clientFails
                    THEN Abort("KubeClient") /\ UNCHANGED <<o, retry>>
                    ELSE /\ o' = [o EXCEPT !.Username = name]
                         /\ IF asks /\ nameFails
                            THEN Abort("GetClusterUserName") /\ UNCHANGED retry
                            ELSE IF name = ""
                            THEN Abort("MissingOption:username") /\ UNCHANGED retry
                            ELSE /\ retry' = RetryStart(RoleRetryAttempts,
                                                        RoleRetrySleep)
                                 /\ Proceed("clusterRoleRetry")
    /\ UNCHANGED <<Flags, cluster, helmCfg, ing, calls>>
    /\ UNCHANGED ctxVars

\* lines 460-471: what one get-or-create returns, "" for nil
GetOrCreate(get, create) ==
    IF get = "ok" THEN "" ELSE IF create = "ok" THEN "" ELSE create

\* lines 459-472: one attempt of the get-or-create under Retry. Get succeeds
\* only on a binding that exists; Create succeeds only where none exists and
\* reports AlreadyExists only where one does
EnableClusterAdminRoleAttempt ==
    /\ pc = "clusterRoleRetry"
    /\ retry.active
    /\ \E get \in {"ok", "err"}, create \in {"ok", "AlreadyExists", "Forbidden"} :
          /\ get = "ok" => (cluster.bindingExists /\ create = "Forbidden")
          /\ (get = "err" /\ create = "ok") => ~cluster.bindingExists
          /\ (get = "err" /\ create = "AlreadyExists") => cluster.bindingExists
          /\ LET r == RetryAfter(retry, GetOrCreate(get, create))
             IN /\ retry' = r
                /\ cluster' = [cluster EXCEPT !.bindingExists =
                                  @ \/ (get = "err" /\ create = "ok")]
                /\ calls' = IF get = "ok" THEN Called(calls, "Get")
                            ELSE Called(Called(calls, "Get"), "Create")
                /\ IF r.active THEN UNCHANGED <<pc, result>>
                   ELSE IF r.result = "ok" THEN Proceed("icp")
                   ELSE Abort(r.result)
    /\ UNCHANGED <<Flags, o, helmCfg, ing, trace>>
    /\ UNCHANGED ctxVars

\* lines 491-556: configureForICP; ip and domain are what the operator
\* answers when asked
ConfigureForICP(f, batchMode, ip, domain) ==
    LET f1 == [f EXCEPT !.IngressNamespace = "kube-system",
                        !.IngressDeployment = "default-backend",
                        !.IngressService = "default-backend",
                        !.TillerNamespace = "default",
                        !.Namespace = "jx"]
    IN IF ~batchMode /\ f1.ExternalIP = ""
       THEN [flags |-> [f1 EXCEPT !.ExternalIP = ip, !.Domain = domain],
             prompts |-> 2]
       ELSE [flags |-> f1, prompts |-> 0]

\* lines 356-360
ConfigureForICPStep ==
    /\ pc = "icp"
    /\ retry' = IdleRetry
    /\ IF Flags.Provider = ICP
       THEN /\ trace' = Append(trace, "configureForICP")
            /\ \E ip \in IPs, domain \in Domains :
                  LET r == ConfigureForICP(Flags, o.BatchMode, ip, domain)
                  IN /\ r.prompts = 0 => (ip = "" /\ domain = "")
                     /\ Flags' = r.flags
                     /\ calls' = Prompted(calls, r.prompts)
       ELSE UNCHANGED <<Flags, calls, trace>>
    /\ Proceed("iks")
    /\ UNCHANGED <<o, cluster, helmCfg, ing>>
    /\ UNCHANGED ctxVars

\* a wait whose time-out goes unnoticed
TimeoutError_Ignored(wait, timesOut) == ""

\* lines 364-367, 694-697 and 736-739: the error a bounded wait returns,
\* "" for nil
TimeoutError(wait, timesOut) ==
    IF timesOut THEN "Timeout:" \o wait ELSE ""

\* the wait that timed out, if one did
TimedOut(wait, timesOut) == IF timesOut THEN wait ELSE ""

\* strings.ToLower on the cluster identifiers
ToLower(id) == IF id = "C1" THEN "c1" ELSE id

\* lines 574-575: the name of the deployment and service IKS injects
IKSIngressName(clusterID) == "public-cr" \o ToLower(clusterID) \o "-alb1"

\* lines 362-368 and 558-578: initIKSIngress
InitIKSIngressStep ==
    /\ pc = "iks"
    /\ IF Flags.Provider # IKS
       THEN Proceed("checkOptions") /\ UNCHANGED <<Flags, calls, trace, ing>>
       ELSE /\ trace' = Append(trace, "initIKSIngress")
            /\ \E clientFails \in BOOLEAN, labelID \in ClusterIDs,
                  labelFails \in BOOLEAN, apiID \in ClusterIDs,
                  apiFails \in BOOLEAN, waitFails \in BOOLEAN :
                  LET viaAPI == labelFails \/ labelID = ""
                      clusterID == IF viaAPI THEN apiID ELSE labelID
                  IN /\ clientFails =>
                          (labelID = "" /\ ~labelFails /\ apiID = ""
                           /\ ~apiFails /\ ~waitFails)
                     /\ ~viaAPI => (apiID = "" /\ ~apiFails)
                     /\ (viaAPI /\ apiFails) => (apiID = "" /\ ~waitFails)
                     /\ IF clientFails
                        THEN Abort("KubeClient") /\ UNCHANGED <<Flags, calls, ing>>
                        ELSE IF viaAPI /\ apiFails
                        THEN Abort("GetClusterID") /\ UNCHANGED <<Flags, calls, ing>>
                        ELSE /\ Flags' =
                                  [Flags EXCEPT
                                     !.IngressDeployment = IKSIngressName(clusterID),
                                     !.IngressService = IKSIngressName(clusterID)]
                             /\ calls' = Called(calls,
                                   "WaitForDeploymentToBeCreatedAndReady")
                             /\ ing' = [ing EXCEPT !.timedOut =
                                   TimedOut("WaitForDeploymentToBeCreatedAndReady",
                                            waitFails)]
                             /\ LET err == TimeoutError(
                                      "WaitForDeploymentToBeCreatedAndReady",
                                      waitFails)
                                IN IF err # "" THEN Abort(err)
                                   ELSE Proceed("checkOptions")
    /\ UNCHANGED <<o, cluster, retry, helmCfg>>
    /\ UNCHANGED ctxVars

\* the helm3 branch forcing only SkipTiller
ForceHelm3_KeepsNoTiller(f) ==
    IF f.Helm3 THEN [f EXCEPT !.SkipTiller = TRUE] ELSE f

\* lines 294-297: helm3 has no tiller
ForceHelm3(f) ==
    IF f.Helm3 THEN [f EXCEPT !.SkipTiller = TRUE, !.NoTiller = TRUE] ELSE f

\* the test of line 302 never finding the tiller namespace missing
TillerNamespaceMissing_Never(f) == FALSE

\* line 302
TillerNamespaceMissing(f) == f.TillerNamespace = ""

\* lines 293-329: checkOptions; curNs and nsFails are what
\* KubeClientAndNamespace returns when it is called
CheckOptions(f, curNs, nsFails) ==
    LET f1 == ForceHelm3(f)
    IN IF f1.SkipTiller THEN [flags |-> f1, err |-> ""]
       ELSE IF f1.GlobalTiller
       THEN IF TillerNamespaceMissing(f1)
            THEN [flags |-> f1, err |-> "MissingOption:tiller-namespace"]
            ELSE [flags |-> f1, err |-> ""]
       ELSE IF f1.Namespace = "" /\ nsFails
       THEN [flags |-> f1, err |-> "KubeClientAndNamespace"]
       ELSE LET ns == IF f1.Namespace = "" THEN curNs ELSE f1.Namespace
            IN IF ns = "" THEN [flags |-> f1, err |-> "MissingOption:namespace"]
               ELSE [flags |-> [f1 EXCEPT !.Namespace = ns], err |-> ""]

\* whether checkOptions calls KubeClientAndNamespace
AsksKubeNamespace(f) ==
    ~f.Helm3 /\ ~f.SkipTiller /\ ~f.GlobalTiller /\ f.Namespace = ""

\* lines 374-382: cfg
BuildHelmConfig(f) ==
    [built |-> TRUE, Namespace |-> f.Namespace, OnlyHelmClient |-> f.HelmClient,
     Helm3 |-> f.Helm3, SkipTiller |-> f.SkipTiller,
     GlobalTiller |-> f.GlobalTiller, TillerNamespace |-> f.TillerNamespace]

\* lines 369-382
CheckOptionsStep ==
    /\ pc = "checkOptions"
    /\ trace' = Append(trace, "checkOptions")
    /\ \E curNs \in KubeNamespaces, nsFails \in BOOLEAN :
          LET r == CheckOptions(Flags, curNs, nsFails)
          IN /\ ~AsksKubeNamespace(Flags) => (curNs = "" /\ ~nsFails)
             /\ nsFails => curNs = ""
             /\ Flags' = r.flags
             /\ IF r.err # ""
                THEN Abort(r.err) /\ UNCHANGED <<helmCfg, retry>>
                ELSE /\ helmCfg' = BuildHelmConfig(r.flags)
                     /\ retry' = RetryStart(HelmRetryAttempts, HelmRetrySleep)
                     /\ Proceed("initHelm")
    /\ UNCHANGED <<o, cluster, ing, calls>>
    /\ UNCHANGED ctxVars

\* lines 383-392: one attempt of InitHelm(cfg) under Retry
InitHelmAttempt ==
    /\ pc = "initHelm"
    /\ retry.active
    /\ \E err \in {"", "InitHelm"} :
          LET r == RetryAfter(retry, err)
          IN /\ retry' = r
             /\ IF r.active THEN UNCHANGED <<pc, result>>
                ELSE IF r.result = "ok" THEN Proceed("buildPacks")
                ELSE Abort(r.result)
    /\ calls' = Called(calls, "InitHelm")
    /\ trace' = IF retry.invoked = 0 THEN Append(trace, "InitHelm") ELSE trace
    /\ UNCHANGED <<Flags, o, cluster, helmCfg, ing>>
    /\ UNCHANGED ctxVars

\* a failure of InitBuildPacks that is noted and does not stop the run
InitBuildPacksStep_NotFatal ==
    /\ pc = "buildPacks"
    /\ retry' = IdleRetry
    /\ trace' = Append(trace, "InitBuildPacks")
    /\ calls' = Called(calls, "InitBuildPacks")
    /\ \E fails \in BOOLEAN :
          /\ pc' = "externalDNS"
          /\ result' = IF fails THEN "InitBuildPacks" ELSE result
    /\ UNCHANGED <<Flags, o, cluster, helmCfg, ing>>
    /\ UNCHANGED ctxVars

\* lines 394-399
InitBuildPacksStep ==
    /\ pc = "buildPacks"
    /\ retry' = IdleRetry
    /\ trace' = Append(trace, "InitBuildPacks")
    /\ calls' = Called(calls, "InitBuildPacks")
    /\ \E fails \in BOOLEAN :
          IF fails THEN Abort("InitBuildPacks") ELSE Proceed("externalDNS")
    /\ UNCHANGED <<Flags, o, cluster, helmCfg, ing>>
    /\ UNCHANGED ctxVars

----------------------------------------------------------------------------
(* InitOptions.Run from external DNS on, and InitIngress                   *)

\* configureOptionsForExternalDNS asking in batch mode as well
ConfigureOptionsForExternalDNS_AsksInBatch(f, batchMode, answer) ==
    [flags |-> [f EXCEPT !.Domain = answer], prompts |-> 1]

\* lines 475-489: configureOptionsForExternalDNS; answer is what the
\* operator types when asked
ConfigureOptionsForExternalDNS(f, batchMode, answer) ==
    IF ~batchMode THEN [flags |-> [f EXCEPT !.Domain = answer], prompts |-> 1]
    ELSE [flags |-> f, prompts |-> 0]

\* lines 401-407: external DNS, then InitIngress unless --skip-ingress
ExternalDNSStep ==
    /\ pc = "externalDNS"
    /\ IF Flags.ExternalDNS
       THEN /\ trace' = Append(trace, "configureOptionsForExternalDNS")
            /\ \E answer \in Domains :
                  LET r == ConfigureOptionsForExternalDNS(Flags, o.BatchMode,
                                                          answer)
                  IN /\ r.prompts = 0 => answer = ""
                     /\ Flags' = r.flags
                     /\ calls' = Prompted(calls, r.prompts)
       ELSE UNCHANGED <<Flags, calls, trace>>
    /\ IF Flags.SkipIngress THEN pc' = "done" /\ result' = "ok"
       ELSE Proceed("ing_namespace")
    /\ UNCHANGED <<o, cluster, retry, helmCfg, ing>>
    /\ UNCHANGED ctxVars

\* InitIngress returns err ("" for nil) and Run ends: lines 408-415
Returns(g, err) ==
    /\ ing' = [g EXCEPT !.returned = IF err = "" THEN "ok" ELSE err]
    /\ pc' = "done"
    /\ result' = IF err = "" THEN "ok" ELSE err

\* InitIngress going on after a failed EnsureNamespaceCreated
IngressEnsureNamespace_GoesOn ==
    /\ pc = "ing_namespace"
    /\ trace' = Append(trace, "InitIngress")
    /\ \E clientFails \in BOOLEAN, nsFails \in BOOLEAN :
          /\ clientFails => ~nsFails
          /\ IF clientFails
             THEN Returns(IdleIng, "KubeClient") /\ UNCHANGED calls
             ELSE /\ calls' = Called(calls, "EnsureNamespaceCreated")
                  /\ ing' = [IdleIng EXCEPT
                               !.stage = "namespace",
                               !.returned = IF nsFails
                                            THEN "EnsureNamespaceCreated"
                                            ELSE ""]
                  /\ Proceed("ing_provider")
    /\ UNCHANGED <<Flags, o, cluster, retry, helmCfg>>
    /\ UNCHANGED ctxVars

\* lines 580-592: the kube client and the ingress namespace
IngressEnsureNamespace ==
    /\ pc = "ing_namespace"
    /\ trace' = Append(trace, "InitIngress")
    /\ \E clientFails \in BOOLEAN, nsFails \in BOOLEAN :
          /\ clientFails => ~nsFails
          /\ IF clientFails
             THEN Returns(IdleIng, "KubeClient") /\ UNCHANGED calls
             ELSE /\ calls' = Called(calls, "EnsureNamespaceCreated")
                  /\ IF nsFails
                     THEN Returns([IdleIng EXCEPT !.stage = "namespace"],
                                  "EnsureNamespaceCreated")
                     ELSE /\ ing' = [IdleIng EXCEPT !.stage = "namespace"]
                          /\ Proceed("ing_provider")
    /\ UNCHANGED <<Flags, o, cluster, retry, helmCfg>>
    /\ UNCHANGED ctxVars

\* isOpenShiftProvider answering false for every provider
isOpenShiftProvider_Never(provider) == FALSE

\* lines 809-816
isOpenShiftProvider(provider) == provider = OPENSHIFT

\* Alibaba's names written over whatever names the caller gave
AlibabaNames_Clobbers(f) ==
    IF f.Provider = ALIBABA
    THEN [f EXCEPT !.IngressDeployment = "nginx-ingress-controller",
                   !.IngressService = "nginx-ingress-lb"]
    ELSE f

\* lines 599-606: Alibaba's names for the deployment and the service, where
\* the caller left the default
AlibabaNames(f) ==
    IF f.Provider = ALIBABA
    THEN [f EXCEPT
            !.IngressDeployment =
                IF @ = DefaultIngressServiceName
                THEN "nginx-ingress-controller" ELSE @,
            !.IngressService =
                IF @ = DefaultIngressServiceName THEN "nginx-ingress-lb" ELSE @]
    ELSE f

\* lines 594-606
IngressProviderCheck ==
    /\ pc = "ing_provider"
    /\ IF isOpenShiftProvider(Flags.Provider)
       THEN Returns(ing, "") /\ UNCHANGED Flags
       ELSE /\ Flags' = AlibabaNames(Flags)
            /\ ing' = [ing EXCEPT !.stage = "provider"]
            /\ Proceed("ing_detect")
    /\ UNCHANGED <<o, cluster, retry, helmCfg, calls, trace>>
    /\ UNCHANGED ctxVars

\* what kube.DeploymentPodCount can return on a deployment with n ready
\* pods: the count, or an error with the count or with zero
PodCountResults(n) ==
    {[count |-> n, err |-> FALSE], [count |-> n, err |-> TRUE],
     [count |-> 0, err |-> TRUE]}

\* lines 610-626: whether to install; confirm is the operator's answer to
\* the survey.Confirm prompt ("yes", "no" or "err")
InstallDecision(batchMode, advancedMode, confirm) ==
    IF batchMode THEN [install |-> TRUE, err |-> FALSE, prompts |-> 0]
    ELSE IF advancedMode
    THEN [install |-> confirm = "yes", err |-> confirm = "err", prompts |-> 1]
    ELSE [install |-> TRUE, err |-> FALSE, prompts |-> 0]

\* InitIngress returning the error of the ready-pod-count query
IngressDetect_QueryErrorFatal ==
    /\ pc = "ing_detect"
    /\ \E q \in PodCountResults(cluster.readyPods), confirm \in {"yes", "no", "err"} :
          LET d == InstallDecision(o.BatchMode, o.AdvancedMode, confirm)
              g == [ing EXCEPT !.stage = "detect", !.podCount = q.count,
                               !.podErr = q.err]
          IN /\ (q.count # 0 \/ d.prompts = 0) => confirm = "yes"
             /\ q.err => confirm = "yes"
             /\ IF q.err
                THEN /\ calls' = Called(calls, "DeploymentPodCount")
                     /\ Returns(g, "DeploymentPodCount")
                ELSE IF q.count = 0
                THEN /\ calls' = Prompted(Called(calls, "DeploymentPodCount"),
                                          d.prompts)
                     /\ IF d.err THEN Returns(g, "survey.AskOne")
                        ELSE IF ~d.install THEN Returns(g, "")
                        ELSE /\ ing' = [g EXCEPT !.install = TRUE]
                             /\ Proceed("ing_prepare")
                ELSE /\ calls' = Called(calls, "DeploymentPodCount")
                     /\ ing' = g
                     /\ Proceed("ing_ip")
    /\ UNCHANGED <<Flags, o, cluster, retry, helmCfg, trace>>
    /\ UNCHANGED ctxVars

\* InitIngress waiting for the deployment of an existing controller too
IngressDetect_AlwaysWaits ==
    /\ pc = "ing_detect"
    /\ \E q \in PodCountResults(cluster.readyPods), confirm \in {"yes", "no", "err"} :
          LET d == InstallDecision(o.BatchMode, o.AdvancedMode, confirm)
              g == [ing EXCEPT !.stage = "detect", !.podCount = q.count,
                               !.podErr = q.err]
          IN /\ (q.count # 0 \/ d.prompts = 0) => confirm = "yes"
             /\ IF q.count = 0
                THEN /\ calls' = Prompted(Called(calls, "DeploymentPodCount"),
                                          d.prompts)
                     /\ IF d.err THEN Returns(g, "survey.AskOne")
                        ELSE IF ~d.install THEN Returns(g, "")
                        ELSE /\ ing' = [g EXCEPT !.install = TRUE]
                             /\ Proceed("ing_prepare")
                ELSE /\ calls' = Called(calls, "DeploymentPodCount")
                     /\ ing' = g
                     /\ Proceed("ing_waitReady")
    /\ UNCHANGED <<Flags, o, cluster, retry, helmCfg, trace>>
    /\ UNCHANGED ctxVars

\* lines 608-630 and 699-701: detect the controller and decide
IngressDetect ==
    /\ pc = "ing_detect"
    /\ \E q \in PodCountResults(cluster.readyPods), confirm \in {"yes", "no", "err"} :
          LET d == InstallDecision(o.BatchMode, o.AdvancedMode, confirm)
              g == [ing EXCEPT !.stage = "detect", !.podCount = q.count,
                               !.podErr = q.err]
          IN /\ (q.count # 0 \/ d.prompts = 0) => confirm = "yes"
             /\ IF q.count = 0
                THEN /\ calls' = Prompted(Called(calls, "DeploymentPodCount"),
                                          d.prompts)
                     /\ IF d.err THEN Returns(g, "survey.AskOne")
                        ELSE IF ~d.install THEN Returns(g, "")
                        ELSE /\ ing' = [g EXCEPT !.install = TRUE]
                             /\ Proceed("ing_prepare")
                ELSE /\ calls' = Called(calls, "DeploymentPodCount")
                     /\ ing' = g
                     /\ Proceed("ing_ip")
    /\ UNCHANGED <<Flags, o, cluster, retry, helmCfg, trace>>
    /\ UNCHANGED ctxVars

\* lines 632-668: the values files and the chart version; each can fail,
\* the temporary file only where one is written (AWS, EKS)
IngressPrepareInstall ==
    /\ pc = "ing_prepare"
    /\ \E err \in {"", "AppendMyValues", "TempFile", "WriteFile",
                  "GetVersionNumber"} :
          /\ err \in {"TempFile", "WriteFile"} => Flags.Provider \in {AWS, EKS}
          /\ IF err # "" THEN Returns([ing EXCEPT !.stage = "prepare"], err)
             ELSE /\ ing' = [ing EXCEPT !.stage = "prepare", !.i = 0]
                  /\ Proceed("ing_install")
    /\ UNCHANGED <<Flags, o, cluster, retry, helmCfg, calls, trace>>
    /\ UNCHANGED ctxVars

\* line 684: the value of i at which a failed install is given up
InstallGiveUpAt == 3

\* the install loop going round after every failure
InstallLoopAfter_NeverGivesUp(i, fails) ==
    IF fails THEN [i |-> i + 1, again |-> TRUE, exhausted |-> FALSE]
    ELSE [i |-> i, again |-> FALSE, exhausted |-> FALSE]

\* lines 682-692: the loop after one InstallChartWithOptions call; again
\* tells whether the loop goes round once more, after a sleep
InstallLoopAfter(i, fails) ==
    IF fails
    THEN IF i >= InstallGiveUpAt
         THEN [i |-> i, again |-> FALSE, exhausted |-> TRUE]
         ELSE [i |-> i + 1, again |-> TRUE, exhausted |-> FALSE]
    ELSE [i |-> i, again |-> FALSE, exhausted |-> FALSE]

\* the install loop returning the error of the last attempt when it gives up
IngressInstallAttempt_ExhaustionFatal ==
    /\ pc = "ing_install"
    /\ \E fails \in BOOLEAN :
          LET l == InstallLoopAfter(ing.i, fails)
              g == [ing EXCEPT !.stage = "install", !.i = l.i,
                               !.exhausted = l.exhausted]
          IN /\ calls' = IF l.again
                         THEN Called(Called(calls, "InstallChart"), "Sleep")
                         ELSE Called(calls, "InstallChart")
             /\ IF l.again THEN ing' = g /\ UNCHANGED <<pc, result>>
                ELSE IF l.exhausted THEN Returns(g, "InstallChart")
                ELSE ing' = g /\ Proceed("ing_waitReady")
    /\ UNCHANGED <<Flags, o, cluster, retry, helmCfg, trace>>
    /\ UNCHANGED ctxVars

\* lines 670-693: one round of the install loop
IngressInstallAttempt ==
    /\ pc = "ing_install"
    /\ \E fails \in BOOLEAN :
          LET l == InstallLoopAfter(ing.i, fails)
          IN /\ ing' = [ing EXCEPT !.stage = "install", !.i = l.i,
                                   !.exhausted = l.exhausted]
             /\ calls' = IF l.again
                         THEN Called(Called(calls, "InstallChart"), "Sleep")
                         ELSE Called(calls, "InstallChart")
             /\ IF l.again THEN UNCHANGED <<pc, result>>
                ELSE Proceed("ing_waitReady")
    /\ UNCHANGED <<Flags, o, cluster, retry, helmCfg, trace>>
    /\ UNCHANGED ctxVars

\* lines 694-697: the bounded wait for the deployment
IngressWaitReady ==
    /\ pc = "ing_waitReady"
    /\ calls' = Called(calls, "WaitForDeploymentToBeReady")
    /\ \E timesOut \in BOOLEAN :
          LET err == TimeoutError("WaitForDeploymentToBeReady", timesOut)
              g == [ing EXCEPT !.stage = "ready",
                               !.timedOut = TimedOut("WaitForDeploymentToBeReady",
                                                     timesOut)]
          IN IF err # "" THEN Returns(g, err)
             ELSE ing' = g /\ Proceed("ing_ip")
    /\ UNCHANGED <<Flags, o, cluster, retry, helmCfg, trace>>
    /\ UNCHANGED ctxVars

\* what o.Kube().LoadConfig() gives in on-premise mode: an error, a nil
\* config, or a config whose current server URL is <<scheme, host, port>>,
\* <<>> when no server is defined, one element when it is malformed
OnPremiseConfigs ==
    {[kind |-> "err", server |-> <<>>], [kind |-> "nil", server |-> <<>>]} \cup
    {[kind |-> "ok", server |-> u] :
        u \in {<<>>, <<"https", "10.0.0.1", "6443">>, <<"%zz">>}}

\* util.UrlHostNameWithoutPort: the host of a URL, an error if it does not
\* parse
UrlHostNameWithoutPort(url) ==
    IF Len(url) = 3 THEN [host |-> url[2], err |-> ""]
    ELSE [host |-> "", err |-> "UrlHostNameWithoutPort"]

\* lines 716-732: the Kubernetes master as the external IP
MasterIP(kc) ==
    IF kc.kind = "err" THEN [ip |-> "", err |-> "LoadConfig"]
    ELSE IF kc.kind = "nil" THEN [ip |-> "", err |-> "EmptyKubeConfig"]
    ELSE IF kc.server = <<>> THEN [ip |-> "", err |-> ""]
    ELSE LET h == UrlHostNameWithoutPort(kc.server)
         IN [ip |-> h.host, err |-> h.err]

\* the test of line 735 holding for every address
NeedsIPWait_Always(externalIP) == TRUE

\* line 735: whether the external IP of the service is waited for
NeedsIPWait(externalIP) == externalIP = ""

\* lines 703-743: the external IP
IngressExternalIP ==
    /\ pc = "ing_ip"
    /\ IF Flags.Provider = OPENSHIFT
       THEN Returns(ing, "") /\ UNCHANGED calls
       ELSE \E kc \in OnPremiseConfigs, timesOut \in BOOLEAN :
              LET onPremise == Flags.ExternalIP = "" /\ Flags.OnPremise
                  m == IF onPremise THEN MasterIP(kc)
                       ELSE [ip |-> Flags.ExternalIP, err |-> ""]
                  waits == m.err = "" /\ NeedsIPWait(m.ip)
                  err == TimeoutError("WaitForExternalIP", waits /\ timesOut)
                  g == [ing EXCEPT !.stage = "ip", !.externalIP = m.ip,
                                   !.timedOut = TimedOut("WaitForExternalIP",
                                                         waits /\ timesOut)]
              IN /\ ~onPremise => kc.kind = "err"
                 /\ ~waits => ~timesOut
                 /\ calls' = IF waits THEN Called(calls, "WaitForExternalIP")
                             ELSE calls
                 /\ IF m.err # "" THEN Returns(g, m.err)
                    ELSE IF err # "" THEN Returns(g, err)
                    ELSE ing' = g /\ Proceed("ing_domain")
    /\ UNCHANGED <<Flags, o, cluster, retry, helmCfg, trace>>
    /\ UNCHANGED ctxVars

\* CommonOptions.GetDomain: on success the given domain, or one it resolves
\* when none is given (from the address, or typed by the operator); the
\* empty string and an error on failure
GetDomainResults(domain, externalIP, batchMode) ==
    {[domain |-> "", err |-> TRUE]} \cup
    (IF domain # "" THEN {[domain |-> domain, err |-> FALSE]}
     ELSE {[domain |-> (IF externalIP = "" THEN "5.6.7.8" ELSE externalIP)
                        \o ".nip.io",
            err |-> FALSE]} \cup
          (IF batchMode THEN {} ELSE {[domain |-> "example.com", err |-> FALSE]}))

\* lines 745-754: the domain
IngressDomain ==
    /\ pc = "ing_domain"
    /\ calls' = Called(calls, "GetDomain")
    /\ \E r \in GetDomainResults(Flags.Domain, ing.externalIP, o.BatchMode) :
          /\ Flags' = [Flags EXCEPT !.Domain = r.domain]
          /\ o' = [o EXCEPT !.Domain = r.domain]
          /\ Returns([ing EXCEPT !.stage = "domain",
                                 !.domainIP = ing.externalIP],
                     IF r.err THEN "GetDomain" ELSE "")
    /\ UNCHANGED <<cluster, retry, helmCfg, trace>>
    /\ UNCHANGED ctxVars

----------------------------------------------------------------------------
(* The init command's runs                                                 *)

\* flags, options and cluster at the start of a run. The inputs of the
\* early phases, of the tiller configuration and of the ingress vary each
\* with the others at their defaults; the tiller and ingress runs switch
\* git validation and the role binding off
EarlyInputs ==
    { [f |-> [DefaultFlags EXCEPT !.Provider = p, !.NoGitValidate = g,
                                  !.SkipClusterRole = c],
       o |-> [DefaultOptions EXCEPT !.BatchMode = b, !.Username = u],
       c |-> [DefaultCluster EXCEPT !.bindingExists = e]] :
        p \in Providers \cup {""}, g \in BOOLEAN, c \in BOOLEAN,
        b \in BOOLEAN, u \in UserNames, e \in BOOLEAN }

TillerInputs ==
    { [f |-> [DefaultFlags EXCEPT !.NoGitValidate = TRUE,
                                  !.SkipClusterRole = TRUE,
                                  !.Provider = p, !.RemoteTiller = t[1],
                                  !.NoTiller = t[2], !.SkipTiller = t[3],
                                  !.GlobalTiller = t[4], !.Helm3 = t[5],
                                  !.TillerNamespace = tn, !.Namespace = ns],
       o |-> [DefaultOptions EXCEPT !.BatchMode = b],
       c |-> DefaultCluster] :
        p \in Providers, t \in [1..5 -> BOOLEAN],
        tn \in {"", "kube-system"}, ns \in {"", "jx"}, b \in BOOLEAN }

IngressInputs ==
    { [f |-> [DefaultFlags EXCEPT !.NoGitValidate = TRUE,
                                  !.SkipClusterRole = TRUE,
                                  !.Provider = p, !.OnPremise = x[1],
                                  !.ExternalDNS = x[2], !.SkipIngress = x[3],
                                  !.ExternalIP = ip, !.Domain = d,
                                  !.IngressDeployment = dep,
                                  !.IngressService = svc],
       o |-> [DefaultOptions EXCEPT !.BatchMode = x[4], !.AdvancedMode = x[5]],
       c |-> [DefaultCluster EXCEPT !.readyPods = n]] :
        p \in Providers, x \in [1..5 -> BOOLEAN], ip \in IPs, d \in Domains,
        dep \in {DefaultIngressServiceName, "my-ingress"},
        svc \in {DefaultIngressServiceName, "my-ingress"}, n \in {0, 1} }

InitInit ==
    /\ kubeConfig = NilConfig
    /\ ctxOut = NoRun
    /\ pc = "start"
    /\ \E in \in EarlyInputs \cup TillerInputs \cup IngressInputs :
          Flags = in.f /\ o = in.o /\ cluster = in.c
    /\ retry = IdleRetry
    /\ helmCfg = NoHelmCfg
    /\ ing = IdleIng
    /\ calls = NoCalls
    /\ trace = <<>>
    /\ result = ""

NextInit ==
    \/ RunStart
    \/ ValidateGitStep
    \/ EnableClusterAdminRoleStart
    \/ EnableClusterAdminRoleAttempt
    \/ ConfigureForICPStep
    \/ InitIKSIngressStep
    \/ CheckOptionsStep
    \/ InitHelmAttempt
    \/ InitBuildPacksStep
    \/ ExternalDNSStep
    \/ IngressEnsureNamespace
    \/ IngressProviderCheck
    \/ IngressDetect
    \/ IngressPrepareInstall
    \/ IngressInstallAttempt
    \/ IngressWaitReady
    \/ IngressExternalIP
    \/ IngressDomain

SpecInit == InitInit /\ [][NextInit]_vars

\* an init run whose calls, prompts and bounded waits all return: the
\* single thread of Run always takes its next step
SpecInitFair == SpecInit /\ WF_vars(NextInit)

----------------------------------------------------------------------------
(* checkOptions on its own, applied and applied again                      *)

\* every setting of the five tiller flags, with and without the namespaces
CheckInputs ==
    { [DefaultFlags EXCEPT !.RemoteTiller = t[1], !.NoTiller = t[2],
                           !.SkipTiller = t[3], !.GlobalTiller = t[4],
                           !.Helm3 = t[5], !.TillerNamespace = tn,
                           !.Namespace = ns] :
        t \in [1..5 -> BOOLEAN], tn \in {"", "kube-system"},
        ns \in {"", "jx"} }

\* lines 293-329 applied to the flags as they stand; trace keeps the flags
\* each application started from
CheckOptionsApply ==
    /\ pc \in {"check", "checked"}
    /\ \E curNs \in KubeNamespaces, nsFails \in BOOLEAN :
          LET r == CheckOptions(Flags, curNs, nsFails)
          IN /\ ~AsksKubeNamespace(Flags) => (curNs = "" /\ ~nsFails)
             /\ nsFails => curNs = ""
             /\ Flags' = r.flags
             /\ result' = IF r.err = "" THEN "ok" ELSE r.err
    /\ trace' = Append(trace, Flags)
    /\ pc' = IF pc = "check" THEN "checked" ELSE "rechecked"
    /\ UNCHANGED <<o, cluster, retry, helmCfg, ing, calls>>
    /\ UNCHANGED ctxVars

InitCheck ==
    /\ kubeConfig = NilConfig
    /\ ctxOut = NoRun
    /\ pc = "check"
    /\ Flags \in CheckInputs
    /\ o = DefaultOptions
    /\ cluster = DefaultCluster
    /\ retry = IdleRetry
    /\ helmCfg = NoHelmCfg
    /\ ing = IdleIng
    /\ calls = NoCalls
    /\ trace = <<>>
    /\ result = ""

NextCheck == CheckOptionsApply

SpecCheck == InitCheck /\ [][NextCheck]_vars

----------------------------------------------------------------------------
(* Both commands: a process runs `jx context` or `jx init`                 *)

\* `jx context`, where no init run is under way
ContextCommand == pc = "idle" /\ Run

InitBoth == InitCtx \/ InitInit

NextBoth == ContextCommand \/ NextInit

SpecBoth == InitBoth /\ [][NextBoth]_vars

----------------------------------------------------------------------------
(* Properties of the context switcher, checked under SpecCtx               *)

\* the last run loaded a configuration (kube.LoadConfig did not fail)
Loaded == ctxOut.ran /\ ctxOut.err # "LoadConfig"

\* C1: when the loaded kube configuration is nil or has no contexts, Run
\* returns the 'no contexts available' error, does not call ModifyConfig and
\* leaves the persisted configuration as it was, whatever the positional
\* arguments, the filter and batch mode are.
C1_NoContextsIsAnError ==
    (Loaded /\ (ctxOut.loaded.isNil \/ DOMAIN ctxOut.loaded.Contexts = {}))
        => /\ ctxOut.err = "NoContexts"
           /\ ctxOut.modifyCalls = 0
           /\ kubeConfig = ctxOut.loaded

\* a run with a positional name and a filter on a non-nil configuration
\* whose context map is empty ended with the error
C1_Witness ==
    /\ ctxOut.ran /\ ~ctxOut.loaded.isNil
    /\ DOMAIN ctxOut.loaded.Contexts = {}
    /\ ctxOut.args = <<(<<1>>)>> /\ ctxOut.filter = <<2>> /\ ~ctxOut.batch
    /\ ctxOut.err = "NoContexts"

\* C2: Run calls ModifyConfig if and only if it resolved a context name that
\* is non-empty and differs from the loaded current context, and then once,
\* with a configuration that differs from the loaded one in CurrentContext
\* only, which is the resolved name; that configuration is what is persisted
\* and reported. Every other successful run reports the current triple of
\* the loaded configuration and changes nothing.
C2_WritesIffNameDiffers ==
    ctxOut.ran =>
        /\ ctxOut.modifyCalls \in {0, 1}
        /\ ctxOut.modifyCalls = 1 <=>
              /\ ctxOut.resolved
              /\ ctxOut.ctxName # <<>>
              /\ ctxOut.ctxName # ctxOut.loaded.CurrentContext
        /\ ctxOut.modifyCalls = 1 =>
              /\ ctxOut.newConfig.CurrentContext = ctxOut.ctxName
              /\ ctxOut.newConfig.Contexts = ctxOut.loaded.Contexts
              /\ ctxOut.newConfig.isNil = ctxOut.loaded.isNil
              /\ ctxOut.err \in {"", "ModifyConfig"}
              /\ ctxOut.err = "" =>
                    /\ kubeConfig = ctxOut.newConfig
                    /\ ctxOut.report.kind = "Now using"
                    /\ ctxOut.report.ctx = ctxOut.ctxName
                    /\ ctxOut.report.ns =
                          ctxOut.loaded.Contexts[ctxOut.ctxName].Namespace
                    /\ ctxOut.report.server =
                          Server(ctxOut.loaded,
                                 ctxOut.loaded.Contexts[ctxOut.ctxName])
        /\ (ctxOut.modifyCalls = 0 \/ ctxOut.err # "") =>
              kubeConfig = ctxOut.loaded
        /\ (ctxOut.modifyCalls = 0 /\ ctxOut.err = "") =>
              /\ ctxOut.report.kind = "Using"
              /\ ctxOut.report.ctx = ctxOut.loaded.CurrentContext
              /\ ctxOut.report.ns = CurrentNamespace(ctxOut.loaded)
              /\ ctxOut.report.server = CurrentServer(ctxOut.loaded)

\* a run switched between two existing contexts
C2_Witness ==
    /\ ctxOut.ran /\ ctxOut.err = "" /\ ctxOut.modifyCalls = 1
    /\ ctxOut.loaded.CurrentContext \in DOMAIN ctxOut.loaded.Contexts
    /\ ctxOut.loaded.CurrentContext # ctxOut.ctxName
    /\ kubeConfig.CurrentContext = ctxOut.ctxName
    /\ kubeConfig.Contexts = ctxOut.loaded.Contexts

\* C3: when a run with a positional context name has returned success, the
\* next run with the same positional name, filter and batch mode, loading
\* what the first persisted, does not call ModifyConfig, returns success and
\* leaves the persisted current context equal to the name; the two runs
\* call ModifyConfig at most once together.
C3_SwitchIsIdempotent ==
    [][ ( /\ ctxOut.ran /\ ctxOut.err = "" /\ Len(ctxOut.args) > 0
          /\ ctxOut'.args = ctxOut.args
          /\ ctxOut'.filter = ctxOut.filter
          /\ ctxOut'.batch = ctxOut.batch
          /\ ctxOut'.err # "LoadConfig" )
        => /\ ctxOut'.loaded = kubeConfig
           /\ ctxOut'.modifyCalls = 0
           /\ ctxOut'.err = ""
           /\ kubeConfig' = kubeConfig
           /\ kubeConfig'.CurrentContext = ctxOut.args[1]
           /\ ctxOut.modifyCalls + ctxOut'.modifyCalls <= 1 ]_vars

\* the second of two successful runs with the same positional name: the
\* name is already current and nothing is written
C3_Witness ==
    /\ ctxOut.ran /\ ctxOut.err = "" /\ Len(ctxOut.args) > 0
    /\ ctxOut.loaded.CurrentContext = ctxOut.args[1]
    /\ ctxOut.modifyCalls = 0
    /\ ctxOut.report.kind = "Using"
    /\ kubeConfig.CurrentContext = ctxOut.args[1]

\* sub occurs in s as a contiguous substring
IsSubstring(sub, s) ==
    \E i \in 1..(Len(s) + 1), j \in 0..Len(s) : SubSeq(s, i, j) = sub

\* the filtered candidate set of a configuration
Candidates(config, filter) ==
    { k \in DOMAIN config.Contexts :
        k # <<>> /\ ~config.Contexts[k].isNil /\ IsSubstring(filter, k) }

\* C4: a positional name is accepted only if it is a filtered candidate (a
\* non-empty key of the context map with a non-nil context that contains
\* the filter); any other is refused with an invalid-argument error that
\* lists exactly the candidates, in increasing order, once each, and the
\* configuration is not written.
C4_PositionalNameMustBeCandidate ==
    (Loaded /\ ctxOut.err # "NoContexts" /\ Len(ctxOut.args) > 0) =>
        LET cand == Candidates(ctxOut.loaded, ctxOut.filter)
            list == ctxOut.choices
        IN IF ctxOut.args[1] \in cand
           THEN /\ ctxOut.err \in {"", "ModifyConfig"}
                /\ ctxOut.ctxName = ctxOut.args[1]
           ELSE /\ ctxOut.err = "InvalidArg"
                /\ { list[i] : i \in 1..Len(list) } = cand
                /\ \A i, j \in 1..Len(list) :
                      i < j => StringLess(list[i], list[j])
                /\ ctxOut.modifyCalls = 0
                /\ kubeConfig = ctxOut.loaded

\* a name was refused under a filter that leaves one of two contexts, and
\* another without a filter, listing both in order
C4_Witness ==
    /\ ctxOut.ran /\ ctxOut.err = "InvalidArg"
    /\ \/ /\ ctxOut.filter = <<2>> /\ ctxOut.args = <<(<<1>>)>>
          /\ DOMAIN ctxOut.loaded.Contexts = {<<1>>, <<1, 2>>}
          /\ ctxOut.choices = <<(<<1, 2>>)>>
       \/ /\ ctxOut.filter = <<>>
          /\ ctxOut.choices = <<(<<1, 2>>), (<<2>>)>>

\* the current context of a configuration is empty or a key of its map
CurrentContextExists(config) ==
    \/ config.isNil
    \/ config.CurrentContext = <<>>
    \/ config.CurrentContext \in DOMAIN config.Contexts

\* C5: no run takes a persisted configuration whose current context is
\* empty or names an existing context to one whose current context names
\* no context, so the property holds after any sequence of runs.
C5_CurrentContextExists ==
    [][ CurrentContextExists(kubeConfig) => CurrentContextExists(kubeConfig') ]_vars

\* a prompted run made another existing context the current one
C5_Witness ==
    /\ ctxOut.ran /\ ctxOut.err = "" /\ ctxOut.prompted
    /\ ctxOut.modifyCalls = 1
    /\ CurrentContextExists(ctxOut.loaded)
    /\ kubeConfig.CurrentContext # ctxOut.loaded.CurrentContext
    /\ kubeConfig.CurrentContext \in DOMAIN kubeConfig.Contexts

----------------------------------------------------------------------------
(* Properties of CommonOptions.Retry, checked under SpecRetry              *)

\* C6: Retry(maxAttempts, delay, operation) with maxAttempts >= 1 invokes
\* the operation until it first succeeds, that is k times with k - 1 delays
\* when the k-th invocation is the first success (k <= maxAttempts), and
\* then returns success; when every invocation fails it invokes it
\* maxAttempts times with maxAttempts - 1 delays, none after the last
\* failure, and returns the error of the last invocation.
C6_RetryCountsAttemptsAndDelays ==
    LET outs == retry.outcomes
        k == Len(outs)
    IN /\ retry.invoked = k
       /\ \A j \in 1..(k - 1) : outs[j] # ""
       /\ retry.slept = retry.delays * retry.sleep
       /\ retry.active => (k < retry.attempts /\ retry.delays = k
                           /\ retry.result = "" /\ \A j \in 1..k : outs[j] # "")
       /\ ~retry.active =>
             /\ k >= 1 /\ k <= retry.attempts
             /\ retry.delays = k - 1
             /\ IF outs[k] = "" THEN retry.result = "ok"
                ELSE k = retry.attempts /\ retry.result = outs[k]

\* an operation that failed three times out of three, with e2 last
C6_Witness ==
    /\ pc = "retry" /\ ~retry.active
    /\ retry.attempts = 3
    /\ retry.outcomes = <<"e1", "e1", "e2">>
    /\ retry.delays = 2 /\ retry.result = "e2"

----------------------------------------------------------------------------
(* Properties of the init command, under SpecInit                          *)

\* InitIngress has ensured the namespace and has returned
IngressReturnedPastNamespace ==
    pc = "done" /\ ing.stage # "" /\ ing.returned # "EnsureNamespaceCreated"

\* C7: on OpenShift InitIngress never installs the ingress chart, whatever
\* the ready-pod count and the mode: once the namespace is ensured it goes
\* no further than the provider test, and returns success from there with
\* no pod count taken, no question asked, nothing waited for and no domain
\* resolved.
C7_OpenShiftSkipsIngress ==
    Flags.Provider = OPENSHIFT =>
        /\ calls["InstallChart"] = 0
        /\ pc \notin {"ing_detect", "ing_prepare", "ing_install",
                      "ing_waitReady", "ing_ip", "ing_domain"}
        /\ IngressReturnedPastNamespace =>
              /\ ing.returned = "ok"
              /\ result = "ok"
              /\ ing.stage = "namespace"
              /\ calls["EnsureNamespaceCreated"] = 1
              /\ calls["DeploymentPodCount"] = 0
              /\ calls["WaitForDeploymentToBeReady"] = 0
              /\ calls["WaitForExternalIP"] = 0
              /\ calls["GetDomain"] = 0

C7_Witness ==
    /\ Flags.Provider = OPENSHIFT
    /\ cluster.readyPods = 0
    /\ ~o.BatchMode
    /\ o.AdvancedMode
    /\ ing.returned = "ok"
    /\ ing.stage = "namespace"
    /\ calls["EnsureNamespaceCreated"] = 1
    /\ calls["InstallChart"] = 0

\* C8: with a non-empty external IP supplied and a provider other than
\* OpenShift, InitIngress never calls WaitForExternalIP; a run that reaches
\* the external-IP step goes on to GetDomain, which is called once and with
\* the supplied address.
C8_SuppliedIPSkipsWait ==
    (Flags.ExternalIP # "" /\ Flags.Provider # OPENSHIFT) =>
        /\ calls["WaitForExternalIP"] = 0
        /\ pc = "ing_domain" => ing.externalIP = Flags.ExternalIP
        /\ (pc = "done" /\ ing.stage \in {"ip", "domain"}) =>
              /\ ing.stage = "domain"
              /\ calls["GetDomain"] = 1
              /\ ing.domainIP = Flags.ExternalIP

C8_Witness ==
    /\ Flags.ExternalIP = "1.2.3.4"
    /\ Flags.Provider = GKE
    /\ ing.install
    /\ calls["InstallChart"] > 0
    /\ calls["WaitForDeploymentToBeReady"] = 1
    /\ calls["WaitForExternalIP"] = 0
    /\ calls["GetDomain"] = 1
    /\ ing.domainIP = "1.2.3.4"
    /\ ing.returned = "ok"

\* the flags for which a tiller namespace is required and missing
GlobalTillerWithoutNamespace ==
    ~Flags.SkipTiller /\ Flags.GlobalTiller /\ Flags.TillerNamespace = ""

\* Run stops at checkOptions with the missing tiller-namespace option, and
\* InitHelm has not been called nor its configuration built
AbortsOnTillerNamespace ==
    /\ pc' = "done"
    /\ result' = "MissingOption:tiller-namespace"
    /\ calls'["InitHelm"] = 0
    /\ ~helmCfg'.built

\* C9: when checkOptions starts with helm3 unset, SkipTiller false,
\* GlobalTiller true and an empty tiller namespace, it fails with the missing
\* tiller-namespace option and Run aborts before InitHelm.
C9_MissingTillerNamespace ==
    [][(pc = "checkOptions" /\ ~Flags.Helm3 /\ GlobalTillerWithoutNamespace)
          => AbortsOnTillerNamespace]_vars

C9_Witness ==
    /\ pc = "done"
    /\ result = "MissingOption:tiller-namespace"
    /\ ~Flags.Helm3
    /\ GlobalTillerWithoutNamespace
    /\ calls["InitHelm"] = 0
    /\ trace[Len(trace)] = "checkOptions"

\* C9 as stated, helm3 or not: every checkOptions that starts with
\* SkipTiller false, GlobalTiller true and an empty tiller namespace fails
\* with the missing tiller-namespace option.
C9_AsStated ==
    [][(pc = "checkOptions" /\ GlobalTillerWithoutNamespace)
          => AbortsOnTillerNamespace]_vars

----------------------------------------------------------------------------
(* Properties of checkOptions, under SpecCheck                             *)

\* C10: if helm3 is set, checkOptions leaves SkipTiller and NoTiller true
\* whatever they were, and a second application leaves the flags as the
\* first one left them.
C10_Helm3ForcesAndIsIdempotent ==
    (pc \in {"checked", "rechecked"} /\ trace[1].Helm3) =>
        /\ Flags.SkipTiller
        /\ Flags.NoTiller
        /\ pc = "rechecked" => Flags = trace[2]

C10_Witness ==
    /\ pc = "rechecked"
    /\ trace[1].Helm3
    /\ ~trace[1].SkipTiller
    /\ ~trace[1].NoTiller
    /\ Flags.SkipTiller
    /\ Flags.NoTiller
    /\ Flags = trace[2]

----------------------------------------------------------------------------
(* Tiller flags, namespace and domain of an init run, under SpecInit       *)

\* C11: once InitHelm has been called, and from then on, SkipTiller true
\* implies GlobalTiller false, whatever the tiller flags of the run were.
C11_SkipTillerImpliesNotGlobal ==
    calls["InitHelm"] > 0 => (Flags.SkipTiller => ~Flags.GlobalTiller)

\* C12: whenever InitHelm, InitBuildPacks or InitIngress has been called,
\* Flags.Namespace is not empty.
C12_NamespaceNotEmpty ==
    (calls["InitHelm"] > 0 \/ calls["InitBuildPacks"] > 0 \/ ing.stage # ""
        \/ ing.returned # "")
        => Flags.Namespace # ""

\* C13: whenever InitIngress has returned success, Flags.Domain is not
\* empty, on the OpenShift exit and on a declined installation as well.
C13_DomainNotEmptyOnSuccess ==
    ing.returned = "ok" => Flags.Domain # ""

----------------------------------------------------------------------------
(* The install loop of InitIngress, under SpecInit                         *)

\* the install loop has been left
InstallLoopLeft ==
    calls["InstallChart"] > 0 /\ pc # "ing_install"

\* C14: in one InitIngress run the chart install is invoked at most 3 times;
\* inside the loop every attempt so far has failed and been followed by a
\* one-second sleep, and once the loop is left there is one sleep fewer than
\* attempts (none after the last) and no more attempts are made.
C14_InstallAtMostThreeTimes ==
    /\ calls["InstallChart"] <= 3
    /\ pc = "ing_install" => calls["Sleep"] = calls["InstallChart"]
    /\ InstallLoopLeft => calls["Sleep"] = calls["InstallChart"] - 1

\* C15: when every install attempt has failed and the loop gives up,
\* InitIngress does not return: it goes on to the wait for the deployment,
\* which is then called, and the run fails only if that wait or a later
\* step fails.
C15_InstallExhaustionIsNotFatal ==
    /\ [][(pc = "ing_install" /\ ing'.exhausted)
            => (pc' = "ing_waitReady" /\ result' = "" /\ ing'.returned = "")]_vars
    /\ [](ing.exhausted =>
            /\ pc \in {"ing_waitReady", "ing_ip", "ing_domain", "done"}
            /\ pc # "ing_waitReady" => calls["WaitForDeploymentToBeReady"] = 1
            /\ pc = "done" => ing.stage \in {"ready", "ip", "domain"})

C15_Witness ==
    /\ ing.exhausted
    /\ calls["InstallChart"] > 1
    /\ calls["WaitForDeploymentToBeReady"] = 1
    /\ calls["GetDomain"] = 1
    /\ ing.returned = "ok"
    /\ result = "ok"

----------------------------------------------------------------------------
(* Time-outs of an init run, under SpecInit                                *)

\* the calls of the phases that come after the wait w in a run
NothingCalledAfter(w) ==
    /\ calls["GetDomain"] = 0
    /\ w = "WaitForDeploymentToBeCreatedAndReady" =>
          /\ calls["InitHelm"] = 0
          /\ calls["InitBuildPacks"] = 0
          /\ calls["EnsureNamespaceCreated"] = 0
          /\ calls["InstallChart"] = 0
          /\ calls["WaitForDeploymentToBeReady"] = 0
          /\ calls["WaitForExternalIP"] = 0
    /\ w = "WaitForDeploymentToBeReady" => calls["WaitForExternalIP"] = 0

\* C16: when the wait for the IKS ingress, for the deployment or for the
\* external IP times out, that very step ends the run with the wait's
\* error and leaves Flags.Domain as it was; the run has then failed, no
\* later phase has called anything (GetDomain in particular), and nothing
\* acts after the run has ended.
C16_TimeoutsAreFatal ==
    /\ [][(ing.timedOut = "" /\ ing'.timedOut # "")
            => /\ pc' = "done"
               /\ result' = "Timeout:" \o ing'.timedOut
               /\ Flags'.Domain = Flags.Domain]_vars
    /\ [](ing.timedOut # "" =>
            /\ pc = "done"
            /\ result \notin {"", "ok"}
            /\ ing.returned # "ok"
            /\ NothingCalledAfter(ing.timedOut))
    /\ [][pc # "done"]_vars

C16_Witness ==
    /\ ing.timedOut = "WaitForExternalIP"
    /\ calls["WaitForExternalIP"] = 1
    /\ pc = "done"
    /\ result = "Timeout:WaitForExternalIP"
    /\ calls["GetDomain"] = 0
    /\ Flags.Domain = ""

----------------------------------------------------------------------------
(* The role binding, under SpecInit                                        *)

\* C17: when the role binding already exists, EnableClusterAdminRole
\* returns success whatever the Get calls return: the retry over the
\* get-or-create never ends with an error on an existing binding, and the
\* run never ends with the already-exists error of Create.
C17_AlreadyExistsIsSuccess ==
    /\ [][(pc = "clusterRoleRetry" /\ cluster.bindingExists /\ ~retry'.active)
            => retry'.result = "ok"]_vars
    /\ [](result # "AlreadyExists")

----------------------------------------------------------------------------
(* Batch mode, under SpecBoth                                              *)

\* C18: in batch mode no prompt is issued, by an init run or by a context
\* run; an init run in batch mode leaves the external IP as given, changes
\* the domain only by resolving it in GetDomain, and installs the ingress
\* controller whenever it finds no ready pod; a context run in batch mode
\* resolves no name other than its positional argument.
C18_NoPromptInBatchMode ==
    /\ [](o.BatchMode => calls["Prompt"] = 0)
    /\ []((ctxOut.ran /\ ctxOut.batch) =>
            /\ ~ctxOut.prompted
            /\ ctxOut.resolved =>
                  ctxOut.ctxName = (IF Len(ctxOut.args) > 0
                                    THEN ctxOut.args[1] ELSE <<>>))
    /\ [][o.BatchMode =>
            /\ Flags'.ExternalIP = Flags.ExternalIP
            /\ Flags'.Domain # Flags.Domain => pc = "ing_domain"
            /\ (pc = "ing_detect" /\ ing'.podCount = 0) => ing'.install]_vars

C18_Witness ==
    /\ o.BatchMode
    /\ Flags.Provider = ICP
    /\ Flags.ExternalDNS
    /\ ing.install
    /\ ing.returned = "ok"
    /\ calls["Prompt"] = 0
    /\ \E i \in 1..Len(trace) : trace[i] = "configureForICP"
    /\ \E i \in 1..Len(trace) : trace[i] = "configureOptionsForExternalDNS"

----------------------------------------------------------------------------
(* The order of the phases of an init run, under SpecInit                  *)

\* the phases in the order InitOptions.Run names them
PhaseOrder ==
    <<"GetCloudProvider", "ValidateGit", "EnableClusterAdminRole",
      "configureForICP", "initIKSIngress", "checkOptions", "InitHelm",
      "InitBuildPacks", "configureOptionsForExternalDNS", "InitIngress">>

Position(phase) == CHOOSE i \in 1..Len(PhaseOrder) : PhaseOrder[i] = phase

Started(phase) == \E i \in 1..Len(trace) : trace[i] = phase

\* the phases that apply to this run and come before phase have started
EarlierPhasesStarted(phase) ==
    \A q \in 1..(Position(phase) - 1) :
        LET earlier == PhaseOrder[q]
            applies == CASE earlier = "ValidateGit" -> ~Flags.NoGitValidate
                         [] earlier = "configureForICP" -> Flags.Provider = ICP
                         [] earlier = "initIKSIngress" -> Flags.Provider = IKS
                         [] earlier = "configureOptionsForExternalDNS" ->
                                Flags.ExternalDNS
                         [] OTHER -> TRUE
        IN Started(earlier) <=> applies

\* the run has hit a fatal failure
Failed == result \notin {"", "ok"}

\* C19: the phases of a run start in the order of PhaseOrder, each at most
\* once; a phase starts only in a run that has not failed and in which every
\* earlier phase that applies has started (and so completed, the run not
\* having failed); once a run has failed it has ended, and nothing acts
\* after a run has ended.
C19_PhasesRunInOrder ==
    /\ [](\A i \in 1..(Len(trace) - 1) :
            Position(trace[i]) < Position(trace[i + 1]))
    /\ [](\A i \in 1..Len(trace) : EarlierPhasesStarted(trace[i]))
    /\ [](Started("InitIngress") => ~Flags.SkipIngress)
    /\ [][trace' # trace => (~Failed /\ pc # "done")]_vars
    /\ [](Failed => pc = "done")
    /\ [][pc # "done"]_vars

C19_Witness ==
    /\ result = "ok"
    /\ trace = <<"GetCloudProvider", "EnableClusterAdminRole",
                 "configureForICP", "checkOptions", "InitHelm",
                 "InitBuildPacks", "configureOptionsForExternalDNS",
                 "InitIngress">>
    /\ calls["GetDomain"] = 1

----------------------------------------------------------------------------
(* The flags after validation, under SpecInit                              *)

\* the positions of a run after checkOptions has succeeded
AfterCheckOptions ==
    {"initHelm", "buildPacks", "externalDNS", "ing_namespace", "ing_provider",
     "ing_detect", "ing_prepare", "ing_install", "ing_waitReady", "ing_ip",
     "ing_domain"}

\* C20: once checkOptions has succeeded, no step of InitHelm,
\* InitBuildPacks, the external-DNS configuration or InitIngress changes
\* any field of the flags.
C20_FlagsFrozenAfterCheckOptions ==
    [][(pc \in AfterCheckOptions) => (Flags' = Flags)]_vars

----------------------------------------------------------------------------
(* On-premise runs, under SpecInit                                         *)

\* an on-premise run with no external IP given, past the external-IP step
OnPremiseResolved ==
    /\ Flags.OnPremise
    /\ Flags.ExternalIP = ""
    /\ Flags.Provider # OPENSHIFT
    /\ ing.stage \in {"ip", "domain"}

\* the errors of lines 717-731
MasterIPErrors == {"LoadConfig", "EmptyKubeConfig", "UrlHostNameWithoutPort"}

\* C21: in an on-premise run with no external IP given, an address derived
\* from the API server's host is used as it is: the wait for the service's
\* external IP is not entered and GetDomain gets the derived address. The
\* wait is entered only where no address was derived, the kube config
\* naming no server for the current context.
C21_OnPremiseUsesMasterIP ==
    OnPremiseResolved =>
        /\ ing.externalIP # "" =>
              /\ calls["WaitForExternalIP"] = 0
              /\ pc = "done" => ing.stage = "domain"
              /\ ing.stage = "domain" => ing.domainIP = ing.externalIP
        /\ ing.returned \in MasterIPErrors => calls["WaitForExternalIP"] = 0
        /\ (ing.externalIP = "" /\ ing.returned \notin MasterIPErrors) =>
              calls["WaitForExternalIP"] = 1

C21_Witness ==
    /\ OnPremiseResolved
    /\ ing.externalIP = "10.0.0.1"
    /\ ing.domainIP = "10.0.0.1"
    /\ calls["WaitForExternalIP"] = 0
    /\ calls["GetDomain"] = 1
    /\ ing.returned = "ok"

\* C21 as stated: no on-premise run with no external IP given enters the
\* wait for the service's external IP.
C21_AsStated ==
    (Flags.OnPremise /\ Flags.ExternalIP = "" /\ Flags.Provider # OPENSHIFT)
        => calls["WaitForExternalIP"] = 0

----------------------------------------------------------------------------
(* IKS and Alibaba, under SpecInit                                         *)

\* C22: in a run on IKS the ingress chart is never installed, whatever the
\* pod count InitIngress is given after the wait for the injected ingress
\* has succeeded.
C22_IKSNeverInstalls ==
    Flags.Provider = IKS =>
        /\ calls["InstallChart"] = 0
        /\ pc \notin {"ing_prepare", "ing_install"}

\* C23: the provider step of InitIngress changes the deployment name only
\* on Alibaba and only from the generic default, to nginx-ingress-controller;
\* likewise the service name, to nginx-ingress-lb, each whatever the other
\* is; it changes no other flag, and nothing on any other provider.
C23_AlibabaRenamesDefaultsOnly ==
    [][(pc = "ing_provider") =>
        /\ Flags'.IngressDeployment =
              (IF Flags.Provider = ALIBABA
                  /\ Flags.IngressDeployment = DefaultIngressServiceName
               THEN "nginx-ingress-controller" ELSE Flags.IngressDeployment)
        /\ Flags'.IngressService =
              (IF Flags.Provider = ALIBABA
                  /\ Flags.IngressService = DefaultIngressServiceName
               THEN "nginx-ingress-lb" ELSE Flags.IngressService)
        /\ [Flags' EXCEPT !.IngressDeployment = Flags.IngressDeployment,
                          !.IngressService = Flags.IngressService] = Flags]_vars

C23_Witness ==
    /\ Flags.Provider = ALIBABA
    /\ ing.stage = "provider"
    /\ Flags.IngressDeployment = "nginx-ingress-controller"
    /\ Flags.IngressService = "my-ingress"

----------------------------------------------------------------------------
(* The choice of a context without a name, under SpecCtx                   *)

\* a run without a positional name and not in batch mode
RunWithoutName ==
    ctxOut.ran /\ Len(ctxOut.args) = 0 /\ ~ctxOut.batch

\* the candidates of the run, none when it stopped before computing them
RunCandidates ==
    IF ctxOut.err \in {"LoadConfig", "NoContexts"} THEN {}
    ELSE Candidates(ctxOut.loaded, ctxOut.filter)

\* C24: a run without a positional name and not in batch mode selects
\* nothing, asks nothing and writes nothing when it has no candidate;
\* selects its only candidate without asking, writing it as the current
\* context exactly when it is not the current one; and asks, with the
\* candidates as options and the current context as default, exactly when
\* it has two or more candidates.
C24_PickByNumberOfCandidates ==
    RunWithoutName =>
        /\ Cardinality(RunCandidates) = 0 =>
              /\ ~ctxOut.prompted
              /\ ctxOut.ctxName = <<>>
              /\ ctxOut.modifyCalls = 0
              /\ ctxOut.newConfig = ctxOut.loaded
        /\ Cardinality(RunCandidates) = 1 =>
              /\ ~ctxOut.prompted
              /\ ctxOut.resolved
              /\ ctxOut.ctxName \in RunCandidates
              /\ ctxOut.modifyCalls =
                    (IF ctxOut.ctxName # ctxOut.loaded.CurrentContext
                     THEN 1 ELSE 0)
              /\ ctxOut.err = "" =>
                    ctxOut.newConfig.CurrentContext = ctxOut.ctxName
        /\ Cardinality(RunCandidates) >= 2 =>
              /\ ctxOut.prompted
              /\ Len(ctxOut.promptOptions) = Cardinality(RunCandidates)
              /\ \A i \in 1..Len(ctxOut.promptOptions) :
                    ctxOut.promptOptions[i] \in RunCandidates
              /\ ctxOut.promptDefault = ctxOut.loaded.CurrentContext

C24_Witness ==
    /\ RunWithoutName
    /\ Cardinality(RunCandidates) = 1
    /\ ~ctxOut.prompted
    /\ ctxOut.modifyCalls = 1
    /\ ctxOut.err = ""
    /\ Cardinality(DOMAIN ctxOut.loaded.Contexts) = 2
    /\ kubeConfig.CurrentContext = ctxOut.ctxName

----------------------------------------------------------------------------
(* The ingress namespace and the pod count, under SpecInit                 *)

\* the calls InitIngress makes on the cluster after the namespace
IngressCalls ==
    {"DeploymentPodCount", "InstallChart", "WaitForDeploymentToBeReady",
     "WaitForExternalIP", "GetDomain"}

\* C25: InitIngress calls EnsureNamespaceCreated first, once, on every
\* provider: no pod count, install, wait or domain resolution happens
\* before it, and a successful return has it done; when it fails InitIngress
\* returns its error and the run ends with none of these calls made.
C25_NamespaceEnsuredFirst ==
    /\ [][(\E c \in IngressCalls : calls'[c] # calls[c])
            => (calls["EnsureNamespaceCreated"] = 1 /\ ing.stage # "")]_vars
    /\ [][(calls'["EnsureNamespaceCreated"] # calls["EnsureNamespaceCreated"])
            => (pc = "ing_namespace" /\ calls["EnsureNamespaceCreated"] = 0
                /\ \A c \in IngressCalls : calls[c] = 0)]_vars
    /\ [](ing.returned = "ok" => calls["EnsureNamespaceCreated"] = 1)
    /\ [](ing.returned = "EnsureNamespaceCreated" =>
            /\ pc = "done"
            /\ result = "EnsureNamespaceCreated"
            /\ \A c \in IngressCalls : calls[c] = 0)

C25_Witness ==
    /\ ing.returned = "EnsureNamespaceCreated"
    /\ result = "EnsureNamespaceCreated"
    /\ calls["EnsureNamespaceCreated"] = 1
    /\ cluster.readyPods = 0
    /\ Flags.Provider = GKE
    /\ calls["DeploymentPodCount"] = 0

----------------------------------------------------------------------------
(* Termination of an init run, under SpecInitFair                          *)

\* C26: every init run whose calls return ends, in success or in failure;
\* the role-binding retry, the InitHelm retry and the install loop make a
\* bounded number of attempts, also when every attempt fails.
C26_InitRunTerminates ==
    /\ <>(pc = "done")
    /\ [](pc = "done" => result # "")
    /\ [](calls["Get"] <= RoleRetryAttempts)
    /\ [](calls["InitHelm"] <= HelmRetryAttempts)
    /\ [](calls["InstallChart"] <= InstallGiveUpAt + 1)

C26_Witness ==
    /\ pc = "done"
    /\ result = "InitHelm"
    /\ calls["InitHelm"] = HelmRetryAttempts
    /\ retry.invoked = HelmRetryAttempts

----------------------------------------------------------------------------
(* The ready-pod-count query and the paths after it, under SpecInit        *)

\* C27: a failure of the ready-pod-count query is never fatal and never
\* reported: with an error and a count of zero the run goes the way of "no
\* controller present" (install, after the confirmation prompt where one is
\* asked), and with a non-zero count the controller is taken as present.
C27_PodCountErrorIsIgnored ==
    [][(pc = "ing_detect" /\ ing'.podErr) =>
          /\ calls'["DeploymentPodCount"] = calls["DeploymentPodCount"] + 1
          /\ result' # "DeploymentPodCount"
          /\ IF ing'.podCount = 0
             THEN \/ pc' = "ing_prepare" /\ ing'.install /\ result' = result
                  \/ /\ ~o.BatchMode /\ o.AdvancedMode
                     /\ calls'["Prompt"] = calls["Prompt"] + 1
                     /\ pc' = "done" /\ ~ing'.install
                     /\ result' \in {"ok", "survey.AskOne"}
             ELSE pc' = "ing_ip" /\ ~ing'.install /\ result' = result]_vars

C27_Witness ==
    /\ ing.podErr
    /\ ing.podCount = 0
    /\ cluster.readyPods = 1
    /\ ing.install
    /\ calls["WaitForDeploymentToBeReady"] = 1
    /\ pc = "done"
    /\ result = "ok"

\* the stages of InitIngress at or after the deployment-readiness wait
WaitedStages == {"ready", "ip", "domain"}

\* an InitIngress run that ended with the operator declining the install
Declined == ing.stage = "detect" /\ ing.returned = "ok"

\* C28 as stated: once the run has ended past the detection, the
\* deployment-readiness wait was performed exactly when the install path
\* was taken.
C28_AsStated ==
    (pc = "done" /\ ing.stage \notin {"", "namespace", "provider"}) =>
        (calls["WaitForDeploymentToBeReady"] = 1 <=> ing.install)

\* C28: the deployment-readiness wait is performed only on the install path
\* (count zero, install not declined), and there exactly when the values
\* files and the chart version were obtained; an existing controller goes to
\* the external-IP resolution with no install and no wait; a declined
\* install ends the run in success with no install, wait, IP or domain
\* resolution.
C28_ReadinessWaitOnInstallPath ==
    /\ calls["WaitForDeploymentToBeReady"] =
          (IF ing.install /\ ing.stage \in WaitedStages THEN 1 ELSE 0)
    /\ ing.install => ing.podCount = 0
    /\ (pc = "done" /\ ing.install) =>
          (calls["WaitForDeploymentToBeReady"] = 1 <=> ing.stage # "prepare")
    /\ (ing.stage \in {"detect", "ip", "domain"} /\ ing.podCount # 0) =>
          /\ pc = "ing_ip" \/ ing.stage \in {"ip", "domain"}
          /\ calls["InstallChart"] = 0
          /\ calls["WaitForDeploymentToBeReady"] = 0
    /\ Declined =>
          /\ ~o.BatchMode /\ o.AdvancedMode
          /\ pc = "done" /\ result = "ok"
          /\ \A c \in {"InstallChart", "WaitForDeploymentToBeReady",
                       "WaitForExternalIP", "GetDomain"} : calls[c] = 0

C28_Witness ==
    /\ pc = "done"
    /\ ing.install
    /\ ing.returned = "GetVersionNumber"
    /\ calls["WaitForDeploymentToBeReady"] = 0
    /\ calls["InstallChart"] = 0

====
